---- MODULE Spec2Model ----
(***************************************************************************)
(* perfect-decimal: the parallel range verifier.                           *)
(*                                                                         *)
(*   src/__util__/safe-decimal-validate.js  verifyRangeParallel, the       *)
(*       coordinator: partitions [0, totalNumbers), spawns one worker per  *)
(*       CPU, listens for their messages and exits, ticks the progress.    *)
(*   src/unnamed/part_000                   verifyChunk, the worker: the   *)
(*       per-index check, the progress slot, the terminal message.         *)
(*                                                                         *)
(* Numbers.  A JavaScript number of a run is kept as an integer count of   *)
(* units of 10^-decimalPlaces (the number 1.5 with decimalPlaces = 1 is    *)
(* 15 units); the integer n is the number n * multiplier units.  Texts     *)
(* (toFixed, JSON) are kept as digit sequences.  Number() and the JSON     *)
(* round trip belong to the platform the program probes: where they lose   *)
(* precision is an input of the run (numberDrift, jsonDrift).              *)
(***************************************************************************)
EXTENDS Integers, Sequences, FiniteSets

\* ------------------------------------------------------------------ bounds

\* maxInteger ranges over 1..MaxInteger,
MaxInteger == 5
\* as long as maxInteger * 10^decimalPlaces stays at or below this.
MaxIndexSpace == 10
\* decimalPlaces ranges over 0..MaxDecimalPlaces.
MaxDecimalPlaces == 1
\* os.cpus().length ranges over 1..MaxCPUs.
MaxCPUs == 3
\* At most this many values at which Number() drifts, and as many for JSON.
MaxDefects == 1
\* At most this many workers die of a fault in one run.
MaxFaults == 1
\* The flush period of verifyChunk.  The source sets 10000000 (part_000:7);
\* the model scales it down so that chunks of a few indexes flush.
batchSize == 2

\* The width of the integers of x | 0.  JavaScript sets 32 (part_000:11); the
\* model scales it down so that maxInteger reaches past 2^(IntBits - 1).
IntBits == 3

\* The integer domain of a progress slot.
ProgressScale == 1000000

\* ------------------------------------------------------------------- state

VARIABLES
    maxInteger,      \* verifyRangeParallel's first argument
    decimalPlaces,   \* verifyRangeParallel's second argument
    numCPUs,         \* os.cpus().length
    numberDrift,     \* platform: the values (in units) Number() parses one unit high
    jsonDrift,       \* platform: the values (in units) the JSON round trip changes
    state,           \* the coordinator: "Idle", "Running", "Succeeded", "Failed"
    workerData,      \* worker id -> [start, end] handed to the worker
    progressArray,   \* the shared Int32Array, worker id -> slot
    progressInterval,\* TRUE while the setInterval ticker is armed
    overallProgress, \* the numerator (sum of the slots) the last tick reported
    pc,              \* worker id -> "loop", "returned", "exited", "faulted"
    i,               \* worker id -> the loop variable of verifyChunk
    batchProgress,   \* worker id -> indexes passed since the last flush
    port,            \* worker id -> events on their way to the coordinator
    exited,          \* the workers whose exit promise is resolved
    checked,         \* history: worker id -> the indexes checked, in order
    posted,          \* history: worker id -> the messages posted, in order
    surfaced,        \* history: the error messages the coordinator printed
    completedLog,    \* history: the workers announced "Worker completed chunk"
    faultLog         \* history: the workers announced "Worker stopped with exit code"

vars == <<maxInteger, decimalPlaces, numCPUs, numberDrift, jsonDrift, state,
          workerData, progressArray, progressInterval, overallProgress, pc, i,
          batchProgress, port, exited, checked, posted, surfaced, completedLog,
          faultLog>>

params == <<maxInteger, decimalPlaces, numCPUs, numberDrift, jsonDrift>>

\* ---------------------------------------------------------------- numerics

RECURSIVE Pow10(_)
Pow10(n) == IF n = 0 THEN 1 ELSE 10 * Pow10(n - 1)

\* Math.pow(10, decimalPlaces)
multiplier == Pow10(decimalPlaces)

\* maxInteger * Math.pow(10, decimalPlaces) - 1
totalNumbers == maxInteger * multiplier - 1

\* Math.ceil(a / b) for a >= 0, b > 0
CeilDiv(a, b) == (a + b - 1) \div b

\* A slip: Math.floor in place of Math.ceil.
chunkSizeFloor == totalNumbers \div numCPUs

\* Math.ceil(totalNumbers / numCPUs)
chunkSize == CeilDiv(totalNumbers, numCPUs)

Min(a, b) == IF a <= b THEN a ELSE b

Workers == 0 .. (numCPUs - 1)

\* The chunk of worker w: start = w * chunkSize, end = min((w+1) * chunkSize, totalNumbers)
ChunkStart(w) == w * chunkSize

\* A slip: the end of a chunk is not clamped to totalNumbers.
ChunkEndUnclamped(w) == (w + 1) * chunkSize

ChunkEnd(w) == Min((w + 1) * chunkSize, totalNumbers)

RECURSIVE Pow2(_)
Pow2(n) == IF n = 0 THEN 1 ELSE 2 * Pow2(n - 1)

\* x | 0 for an integer x: ToInt32, x modulo 2^IntBits in
\* -2^(IntBits - 1) .. 2^(IntBits - 1) - 1.
ToInt32(x) == ((x + Pow2(IntBits - 1)) % Pow2(IntBits)) - Pow2(IntBits - 1)

\* (i / multiplier) | 0
intPart(idx) == ToInt32(idx \div multiplier)
\* i % multiplier
fracPart(idx) == idx % multiplier
\* intPart + (fracPart / multiplier), in units of 1 / multiplier
valueAt(idx) == intPart(idx) * multiplier + fracPart(idx)

\* ------------------------------------------------------------------- texts

RECURSIVE DigitsOf(_)
\* the decimal digits of a natural number, most significant first
DigitsOf(n) == IF n < 10 THEN <<n>> ELSE Append(DigitsOf(n \div 10), n % 10)

\* exactly `width` digits of f, zero-padded on the left
PadDigits(f, width) == [k \in 1 .. width |-> (f \div Pow10(width - k)) % 10]

RECURSIVE ParsePrefix(_, _)
\* the natural number the first n digits of s write
ParsePrefix(s, n) == IF n = 0 THEN 0 ELSE 10 * ParsePrefix(s, n - 1) + s[n]

\* the natural number a digit sequence writes (the empty sequence writes 0)
ParseDigits(s) == ParsePrefix(s, Len(s))

RECURSIVE SignificantLen(_, _)
\* the length of the first n digits of s without their trailing zeros
SignificantLen(s, n) == IF n > 0 /\ s[n] = 0 THEN SignificantLen(s, n - 1) ELSE n

\* a digit sequence without its trailing zeros
StripZeros(s) == SubSeq(s, 1, SignificantLen(s, Len(s)))

\* x.toFixed(decimalPlaces): the integer digits and exactly decimalPlaces
\* fractional digits
toFixed(x) ==
    [int |-> DigitsOf(x \div multiplier), frac |-> PadDigits(x % multiplier, decimalPlaces)]

\* Number(text): the value the text writes, one unit high where the platform drifts
Number(text) ==
    LET exact == ParseDigits(text.int) * multiplier
                 + ParseDigits(text.frac) * Pow10(decimalPlaces - Len(text.frac))
    IN  IF exact \in numberDrift THEN exact + 1 ELSE exact

\* JSON.stringify(x): the shortest text, no trailing fractional zeros
JSONstringify(x) ==
    [int |-> DigitsOf(x \div multiplier),
     frac |-> StripZeros(PadDigits(x % multiplier, decimalPlaces))]

\* JSON.parse(text): the value the text writes
JSONparse(text) ==
    ParseDigits(text.int) * multiplier
    + ParseDigits(text.frac) * Pow10(decimalPlaces - Len(text.frac))

\* JSON.parse(JSON.stringify(x)), one unit high where the platform drifts
JSONroundTrip(x) ==
    LET back == JSONparse(JSONstringify(x))
    IN  IF x \in jsonDrift THEN back + 1 ELSE back

\* const serialized = Number(value.toFixed(decimalPlaces))
serializedOf(value) == Number(toFixed(value))
\* const deserialized = JSON.parse(JSON.stringify(serialized))
deserializedOf(serialized) == JSONroundTrip(serialized)

\* A slip: && in place of ||.
CheckFailsBoth(value, serialized, deserialized) ==
    /\ serialized # deserialized
    /\ toFixed(serialized) # toFixed(value)

\* serialized !== deserialized || serialized.toFixed(dp) !== value.toFixed(dp)
CheckFails(value, serialized, deserialized) ==
    \/ serialized # deserialized
    \/ toFixed(serialized) # toFixed(value)

\* ---------------------------------------------------------------- messages

NoMsg == [error |-> FALSE, completed |-> FALSE, value |-> 0, serialized |-> 0, deserialized |-> 0]

\* A slip: the message carries the serialized value in place of the value.
ErrorMsgOfSerialized(value, serialized, deserialized) ==
    [error |-> TRUE, completed |-> FALSE, value |-> serialized,
     serialized |-> serialized, deserialized |-> deserialized]

\* { error: true, value, serialized, deserialized }
ErrorMsg(value, serialized, deserialized) ==
    [error |-> TRUE, completed |-> FALSE, value |-> value,
     serialized |-> serialized, deserialized |-> deserialized]

\* { completed: true }
CompletedMsg == [NoMsg EXCEPT !.completed = TRUE]

MessageEvent(m) == [kind |-> "message", msg |-> m, code |-> 0]
ErrorEvent == [kind |-> "error", msg |-> NoMsg, code |-> 0]
ExitEvent(c) == [kind |-> "exit", msg |-> NoMsg, code |-> c]

\* ------------------------------------------------------------------- Init

SmallSets(S) == {D \in SUBSET S : Cardinality(D) <= MaxDefects}

Init ==
    /\ decimalPlaces \in 0 .. MaxDecimalPlaces
    /\ maxInteger \in {m \in 1 .. MaxInteger : m * Pow10(decimalPlaces) <= MaxIndexSpace}
    /\ numCPUs \in 1 .. MaxCPUs
    /\ numberDrift \in SmallSets(0 .. (maxInteger * Pow10(decimalPlaces) - 1))
    /\ jsonDrift \in SmallSets(0 .. (maxInteger * Pow10(decimalPlaces) - 1))
    /\ state = "Idle"
    /\ workerData = <<>>
    /\ progressArray = <<>>
    /\ progressInterval = FALSE
    /\ overallProgress = 0
    /\ pc = <<>>
    /\ i = <<>>
    /\ batchProgress = <<>>
    /\ port = <<>>
    /\ exited = {}
    /\ checked = <<>>
    /\ posted = <<>>
    /\ surfaced = <<>>
    /\ completedLog = {}
    /\ faultLog = {}

\* ------------------------------------------------------------- coordinator

\* verifyRangeParallel, lines 5-57: the partition, the shared array, one worker
\* per CPU with its handlers, the ticker, the promise on every exit.
Start ==
    /\ state = "Idle"
    /\ state' = "Running"
    /\ workerData' = [w \in Workers |-> [start |-> ChunkStart(w), end |-> ChunkEnd(w)]]
    /\ progressArray' = [w \in Workers |-> 0]
    /\ progressInterval' = TRUE
    /\ pc' = [w \in Workers |-> "loop"]
    /\ i' = [w \in Workers |-> ChunkStart(w)]
    /\ batchProgress' = [w \in Workers |-> 0]
    /\ port' = [w \in Workers |-> <<>>]
    /\ checked' = [w \in Workers |-> <<>>]
    /\ posted' = [w \in Workers |-> <<>>]
    /\ UNCHANGED <<params, overallProgress, exited, surfaced, completedLog, faultLog>>

RECURSIVE SumTo(_, _)
\* progressArray.reduce((sum, progress) => sum + progress, 0), over slots 0..n
SumTo(arr, n) == IF n < 0 THEN 0 ELSE arr[n] + SumTo(arr, n - 1)

\* The setInterval callback, lines 50-55: sums the slots and prints the fraction
\* sum / (numCPUs * 1000000).  overallProgress keeps the numerator.
Tick ==
    /\ state = "Running"
    /\ progressInterval
    /\ overallProgress' = SumTo(progressArray, numCPUs - 1)
    /\ UNCHANGED <<params, state, workerData, progressArray, progressInterval, pc, i,
                   batchProgress, port, exited, checked, posted, surfaced,
                   completedLog, faultLog>>

\* A slip: the handler prints the error and goes on.
AfterErrorKeepsRunning == "Running"

\* process.exit(1), line 34: the run is over, failed.
AfterError == "Failed"

\* A slip: the handlers go on after the run is over.
HasEventAnyState(w, kind) ==
    /\ w \in Workers
    /\ state # "Idle"
    /\ Len(port[w]) > 0
    /\ Head(port[w]).kind = kind

\* The event loop hands the oldest event of worker w to its handler, while the
\* process is alive.
HasEvent(w, kind) ==
    /\ w \in Workers
    /\ state = "Running"
    /\ Len(port[w]) > 0
    /\ Head(port[w]).kind = kind

\* worker.on("message", ...), lines 28-39.  An error message prints the error and
\* calls process.exit(1): the process, its ticker and its workers are gone.
OnMessage(w) ==
    /\ HasEvent(w, "message")
    /\ LET msg == Head(port[w]).msg
       IN  /\ port' = [port EXCEPT ![w] = Tail(@)]
           /\ IF msg.error
              THEN /\ surfaced' = Append(surfaced, msg)
                   /\ state' = AfterError
                   /\ progressInterval' = FALSE
                   /\ UNCHANGED completedLog
              ELSE /\ completedLog' = IF msg.completed THEN completedLog \cup {w}
                                                     ELSE completedLog
                   /\ UNCHANGED <<surfaced, state, progressInterval>>
    /\ UNCHANGED <<params, workerData, progressArray, overallProgress, pc, i,
                   batchProgress, exited, checked, posted, faultLog>>

\* worker.on("error", console.error), line 41: the fault is printed, nothing else.
OnError(w) ==
    /\ HasEvent(w, "error")
    /\ port' = [port EXCEPT ![w] = Tail(@)]
    /\ UNCHANGED <<params, state, workerData, progressArray, progressInterval,
                   overallProgress, pc, i, batchProgress, exited, checked, posted,
                   surfaced, completedLog, faultLog>>

\* The promises of line 57 are all resolved.
AllExited(done) == done = Workers

\* The two "exit" listeners, lines 42-44 and 57, and the then-callback of
\* Promise.all, lines 57-63, which runs once the last promise is resolved:
\* clearInterval and "All tests passed".
OnExit(w) ==
    /\ HasEvent(w, "exit")
    /\ port' = [port EXCEPT ![w] = Tail(@)]
    /\ faultLog' = IF Head(port[w]).code # 0 THEN faultLog \cup {w} ELSE faultLog
    /\ exited' = exited \cup {w}
    /\ IF AllExited(exited')
       THEN /\ progressInterval' = FALSE
            /\ state' = "Succeeded"
       ELSE UNCHANGED <<progressInterval, state>>
    /\ UNCHANGED <<params, workerData, progressArray, overallProgress, pc, i,
                   batchProgress, checked, posted, surfaced, completedLog>>

\* ------------------------------------------------------------------ worker

\* const totalInChunk = end - start
totalInChunk(w) == workerData[w].end - workerData[w].start

\* A slip: the count is scaled but not divided by totalInChunk.
BatchSlotUndivided(done, total) == done * ProgressScale

\* Math.floor((i - start) / totalInChunk * 1000000), with the exact quotient
BatchSlot(done, total) == (done * ProgressScale) \div total

\* A slip: = in place of +=.
FinalSlotAssigned(slot, partial, total) == partial \div total

\* progressArray[workerId] += batchProgress / totalInChunk: the Int32Array keeps
\* the integer part of slot + batchProgress / totalInChunk
FinalSlot(slot, partial, total) == (slot * total + partial) \div total

\* A slip: every worker is handed the same workerId.
workerIdShared(w) == 0

\* workerData.workerId, the slot of worker w: workerId: i, line 25 of the coordinator
workerId(w) == w

Running(w) ==
    /\ w \in Workers
    /\ state = "Running"
    /\ pc[w] = "loop"

\* A slip: i < end - 1.
LoopStopsEarly(w) == i[w] < workerData[w].end - 1

\* i < end, line 10
LoopContinues(w) == i[w] < workerData[w].end

\* the passing branch of an iteration, lines 23-28, and i++
PassIndex(w, idx) ==
    /\ IF batchProgress[w] + 1 = batchSize
       THEN /\ progressArray' = [progressArray EXCEPT ![workerId(w)] =
                   BatchSlot(idx - workerData[w].start, totalInChunk(w))]
            /\ batchProgress' = [batchProgress EXCEPT ![w] = 0]
       ELSE /\ batchProgress' = [batchProgress EXCEPT ![w] = @ + 1]
            /\ UNCHANGED progressArray
    /\ i' = [i EXCEPT ![w] = idx + 1]

\* parentPort.postMessage({ error: true, ... }), line 19
PostError(w, msg) ==
    /\ port' = [port EXCEPT ![w] = Append(@, MessageEvent(msg))]
    /\ posted' = [posted EXCEPT ![w] = Append(@, msg)]

\* A slip: no return after the Error message, the iteration goes on.
VerifyIndexNoReturn(w) ==
    /\ Running(w)
    /\ LoopContinues(w)
    /\ \E value \in {valueAt(i[w])} :
       \E serialized \in {serializedOf(value)} :
       \E deserialized \in {deserializedOf(serialized)} :
           /\ checked' = [checked EXCEPT ![w] = Append(@, i[w])]
           /\ IF CheckFails(value, serialized, deserialized)
              THEN PostError(w, ErrorMsg(value, serialized, deserialized))
              ELSE UNCHANGED <<port, posted>>
           /\ PassIndex(w, i[w])
           /\ UNCHANGED pc
    /\ UNCHANGED <<params, state, workerData, progressInterval, overallProgress,
                   exited, surfaced, completedLog, faultLog>>

\* One iteration of the loop of verifyChunk, lines 10-29; value, serialized and
\* deserialized are the constants of lines 13, 15 and 16.
VerifyIndex(w) ==
    /\ Running(w)
    /\ LoopContinues(w)
    /\ \E value \in {valueAt(i[w])} :
       \E serialized \in {serializedOf(value)} :
       \E deserialized \in {deserializedOf(serialized)} :
           /\ checked' = [checked EXCEPT ![w] = Append(@, i[w])]
           /\ IF CheckFails(value, serialized, deserialized)
              THEN /\ PostError(w, ErrorMsg(value, serialized, deserialized))
                   /\ pc' = [pc EXCEPT ![w] = "returned"]
                   /\ UNCHANGED <<i, batchProgress, progressArray>>
              ELSE /\ PassIndex(w, i[w])
                   /\ UNCHANGED <<port, posted, pc>>
    /\ UNCHANGED <<params, state, workerData, progressInterval, overallProgress,
                   exited, surfaced, completedLog, faultLog>>

\* A slip: the Completed message is posted inside the if of the partial flush.
FinishChunkInsideIf(w) ==
    /\ Running(w)
    /\ ~LoopContinues(w)
    /\ IF batchProgress[w] > 0
       THEN /\ progressArray' = [progressArray EXCEPT ![workerId(w)] =
                   FinalSlot(@, batchProgress[w], totalInChunk(w))]
            /\ port' = [port EXCEPT ![w] = Append(@, MessageEvent(CompletedMsg))]
            /\ posted' = [posted EXCEPT ![w] = Append(@, CompletedMsg)]
       ELSE UNCHANGED <<progressArray, port, posted>>
    /\ pc' = [pc EXCEPT ![w] = "returned"]
    /\ UNCHANGED <<params, state, workerData, progressInterval, overallProgress, i,
                   batchProgress, exited, checked, surfaced, completedLog, faultLog>>

\* The end of verifyChunk, lines 31-37: the partial flush and the Completed message.
FinishChunk(w) ==
    /\ Running(w)
    /\ ~LoopContinues(w)
    /\ progressArray' =
          IF batchProgress[w] > 0
          THEN [progressArray EXCEPT ![workerId(w)] =
                   FinalSlot(@, batchProgress[w], totalInChunk(w))]
          ELSE progressArray
    /\ port' = [port EXCEPT ![w] = Append(@, MessageEvent(CompletedMsg))]
    /\ posted' = [posted EXCEPT ![w] = Append(@, CompletedMsg)]
    /\ pc' = [pc EXCEPT ![w] = "returned"]
    /\ UNCHANGED <<params, state, workerData, progressInterval, overallProgress, i,
                   batchProgress, exited, checked, surfaced, completedLog, faultLog>>

\* The worker script is over (line 45): the thread exits with code 0.
WorkerExit(w) ==
    /\ w \in Workers
    /\ state = "Running"
    /\ pc[w] = "returned"
    /\ port' = [port EXCEPT ![w] = Append(@, ExitEvent(0))]
    /\ pc' = [pc EXCEPT ![w] = "exited"]
    /\ UNCHANGED <<params, state, workerData, progressArray, progressInterval,
                   overallProgress, i, batchProgress, exited, checked, posted,
                   surfaced, completedLog, faultLog>>

\* The worker thread dies of an uncaught fault before verifyChunk returns: the
\* parent gets its "error" event and its "exit" event with code 1.
WorkerFault(w) ==
    /\ Running(w)
    /\ Cardinality({v \in Workers : pc[v] = "faulted"}) < MaxFaults
    /\ port' = [port EXCEPT ![w] = @ \o <<ErrorEvent, ExitEvent(1)>>]
    /\ pc' = [pc EXCEPT ![w] = "faulted"]
    /\ UNCHANGED <<params, state, workerData, progressArray, progressInterval,
                   overallProgress, i, batchProgress, exited, checked, posted,
                   surfaced, completedLog, faultLog>>

\* ----------------------------------------------------------- specifications

WorkerIds == 0 .. (MaxCPUs - 1)

Next ==
    \/ Start
    \/ Tick
    \/ \E w \in WorkerIds : OnMessage(w)
    \/ \E w \in WorkerIds : OnError(w)
    \/ \E w \in WorkerIds : OnExit(w)
    \/ \E w \in WorkerIds : VerifyIndex(w)
    \/ \E w \in WorkerIds : FinishChunk(w)
    \/ \E w \in WorkerIds : WorkerExit(w)
    \/ \E w \in WorkerIds : WorkerFault(w)

Spec == Init /\ [][Next]_vars

\* The runs in which no worker thread dies of a fault.
NextNoFault ==
    \/ Start
    \/ Tick
    \/ \E w \in WorkerIds : OnMessage(w)
    \/ \E w \in WorkerIds : OnExit(w)
    \/ \E w \in WorkerIds : VerifyIndex(w)
    \/ \E w \in WorkerIds : FinishChunk(w)
    \/ \E w \in WorkerIds : WorkerExit(w)

\* The steps of the worker threads and the handlers of the coordinator's event
\* loop: everything but the ticker.
Progress ==
    \/ Start
    \/ \E w \in WorkerIds : OnMessage(w)
    \/ \E w \in WorkerIds : OnExit(w)
    \/ \E w \in WorkerIds : VerifyIndex(w)
    \/ \E w \in WorkerIds : FinishChunk(w)
    \/ \E w \in WorkerIds : WorkerExit(w)

\* As long as a worker thread can run or an event waits for its handler, one of
\* them gets its turn: the threads and the event loop do not all stop.
Fairness == WF_vars(Progress)

LiveSpec == Init /\ [][NextNoFault]_vars /\ Fairness

\* ------------------------------------------------------------------ claims

Spawned == state # "Idle"

\* the indexes of the chunk handed to worker w
ChunkIndexes(w) == {idx \in 0 .. MaxIndexSpace + MaxCPUs : workerData[w].start <= idx /\ idx < workerData[w].end}

\* the per-index check of verifyChunk fails at idx
Failing(idx) ==
    CheckFails(valueAt(idx), serializedOf(valueAt(idx)),
               deserializedOf(serializedOf(valueAt(idx))))

PostedError(w) == \E k \in 1 .. Len(posted[w]) : posted[w][k].error
PostedCompleted(w) == \E k \in 1 .. Len(posted[w]) : posted[w][k].completed

\* C1: once the workers are spawned, every index of [0, totalNumbers) lies in
\* the chunk of exactly one worker, and no chunk holds an index outside
\* [0, totalNumbers).
C1_PartitionCoversOnce ==
    Spawned =>
        /\ \A idx \in 0 .. (totalNumbers - 1) :
              Cardinality({w \in Workers : idx \in ChunkIndexes(w)}) = 1
        /\ \A w \in Workers : ChunkIndexes(w) \subseteq 0 .. (totalNumbers - 1)

\* C1 witness: three workers, an uneven partition whose last chunk has
\* start > end, and a chunk that is not empty.
C1_Witness ==
    /\ Spawned
    /\ numCPUs = 3
    /\ totalNumbers > 0
    /\ \E w \in Workers : workerData[w].start > workerData[w].end
    /\ \E w \in Workers : ChunkIndexes(w) # {}

\* the greatest index handed to any worker
LastIndex == CHOOSE idx \in UNION {ChunkIndexes(w) : w \in Workers} :
                \A other \in UNION {ChunkIndexes(w) : w \in Workers} : other <= idx

\* C2 (as claimed): index 0 maps to intPart 0 and fracPart 0, and the last
\* index any worker is handed maps to intPart = maxInteger - 1 and
\* fracPart = 10^decimalPlaces - 1.
C2_RangeEndsChecked ==
    (Spawned /\ totalNumbers > 0) =>
        /\ intPart(0) = 0 /\ fracPart(0) = 0
        /\ intPart(LastIndex) = maxInteger - 1
        /\ fracPart(LastIndex) = multiplier - 1

\* C3 (as claimed): in state Succeeded every worker's Completed message was
\* received and no Error was received.
C3_SuccessMeansAllCompleted ==
    state = "Succeeded" => (completedLog = Workers /\ Len(surfaced) = 0)

\* C4 (as claimed): a run in which a worker died of a fault, without a terminal
\* outcome, is never in state Succeeded.
C4_FaultNeverSucceeds ==
    (Spawned /\ \E w \in Workers : pc[w] = "faulted" /\ Len(posted[w]) = 0)
        => state # "Succeeded"

\* an Error message of worker w is still on its way to the coordinator
ErrorInFlight(w) == \E k \in 1 .. Len(port[w]) : port[w][k].msg.error

\* C5: at most one Error is ever surfaced; the run is Failed, with the ticker
\* stopped, exactly when one has been; and no state lies between the handling
\* of an Error message and Failed: a worker's Error that is no longer on its
\* way is the one surfaced, and the run is Failed.
C5_FirstErrorFails ==
    /\ Len(surfaced) <= 1
    /\ (Len(surfaced) = 1) <=> (state = "Failed")
    /\ state = "Failed" => ~progressInterval
    /\ Spawned =>
          \A w \in Workers : (PostedError(w) /\ ~ErrorInFlight(w)) =>
              (state = "Failed" /\ surfaced = posted[w])

\* C5 witness: the run failed on one worker's Error while a second worker was
\* still in its loop and a third had posted an Error of its own, not surfaced.
C5_Witness ==
    /\ state = "Failed"
    /\ Len(surfaced) = 1
    /\ \E w \in Workers : pc[w] = "loop"
    /\ \E w \in Workers : PostedError(w) /\ Len(port[w]) > 0

\* the indexes of worker w's chunk at which the check fails
FailingIn(w) == {idx \in ChunkIndexes(w) : Failing(idx)}

\* the lowest of a non-empty set of indexes
Lowest(S) == CHOOSE idx \in S : \A other \in S : idx <= other

\* the indexes from..upto, ascending
Ascending(from, upto) == [k \in 1 .. (upto - from + 1) |-> from + k - 1]

\* the integer n as a number of the run (in units of 1 / multiplier)
NumberOfInt(n) == n * multiplier

\* worker w is through with verifyChunk
Returned(w) == pc[w] \in {"returned", "exited"}

\* what C6 says of a worker, `carried` being what the Error's value field is
\* said to hold for the lowest failing index
FailFast(w, carried(_)) ==
    LET low == Lowest(FailingIn(w))
    IN  /\ (Returned(w) /\ FailingIn(w) # {}) => PostedError(w)
        /\ PostedError(w) =>
              /\ FailingIn(w) # {}
              /\ Len(posted[w]) = 1
              /\ posted[w][1].value = carried(low)
              /\ posted[w][1].serialized = serializedOf(valueAt(low))
              /\ posted[w][1].deserialized = deserializedOf(serializedOf(valueAt(low)))
              /\ checked[w] = Ascending(workerData[w].start, low)

C8_OneTerminalOutcome ==
    Spawned => \A w \in Workers :
        /\ Len(posted[w]) <= 1
        /\ Returned(w) =>
              /\ Len(posted[w]) = 1
              /\ posted[w][1].error # posted[w][1].completed

\* C8 witness: one worker is through with an Error, another with Completed.
C8_Witness ==
    /\ Spawned
    /\ \E w \in Workers : Returned(w) /\ PostedError(w)
    /\ \E w \in Workers : Returned(w) /\ PostedCompleted(w) /\ ChunkIndexes(w) # {}

\* C9: a worker that has posted Completed has checked the indexes of its chunk,
\* each once, in ascending order, and the check fails at none of them.
C9_CompletedAfterWholeChunk ==
    Spawned => \A w \in Workers : PostedCompleted(w) =>
        /\ checked[w] = Ascending(workerData[w].start, workerData[w].end - 1)
        /\ FailingIn(w) = {}

\* C9 witness: Completed after a chunk of three indexes or more, in a run in
\* which another chunk holds a failing index.
C9_Witness ==
    /\ Spawned
    /\ \E w \in Workers : PostedCompleted(w) /\ Len(checked[w]) >= 3
    /\ \E w \in Workers : FailingIn(w) # {}

\* C10: no step lowers a progress slot.
C10_SlotNeverDecreases ==
    [][\A w \in WorkerIds :
          (w \in DOMAIN progressArray) => progressArray'[w] >= progressArray[w]]_vars

\* C10 witness: a worker is through with a chunk that took two batch flushes
\* and the final partial flush.
C10_Witness ==
    /\ Spawned
    /\ \E w \in Workers :
          /\ PostedCompleted(w)
          /\ totalInChunk(w) > 2 * batchSize
          /\ totalInChunk(w) % batchSize # 0
          /\ progressArray[w] > 0

\* the check fails at no index of [0, totalNumbers)
NoFailingIndex == \A idx \in 0 .. (totalNumbers - 1) : ~Failing(idx)

\* C7: in a fair run without faults in which the check fails at no index,
\* eventually every worker has posted Completed, the coordinator has received
\* every one of them, and the coordinator is in Succeeded.
C7_FairRunSucceeds ==
    NoFailingIndex =>
        <>(/\ state = "Succeeded"
           /\ completedLog = Workers
           /\ \A w \in Workers : PostedCompleted(w))

\* C7 witness: Succeeded with three workers, one of them with an empty chunk
\* and one with a chunk that is a whole number of batches.
C7_Witness ==
    /\ state = "Succeeded"
    /\ NoFailingIndex
    /\ numCPUs = 3
    /\ \E w \in Workers : ChunkIndexes(w) = {} /\ PostedCompleted(w)
    /\ \E w \in Workers : totalInChunk(w) = batchSize /\ PostedCompleted(w)

\* ------------------------------------------------------------ progress slots

\* the number of indices of its chunk that worker w has verified so far
indexesDoneInChunk(w) == Len(checked[w])

\* Worker w has just flushed a batch, or has done nothing since but end its chunk.
AtBatchFlush(w) ==
    /\ batchProgress[w] = 0
    /\ indexesDoneInChunk(w) > 0
    /\ ~PostedError(w)

\* C11: at every batch flush the slot of the worker holds
\* indexesDoneInChunk / totalInChunk scaled to 0..1,000,000, the index just
\* checked counted among the indices done.
C11_FlushCountsIndexJustChecked ==
    Spawned =>
        \A w \in Workers :
            AtBatchFlush(w) =>
                progressArray[w] = (indexesDoneInChunk(w) * ProgressScale) \div totalInChunk(w)

\* the slot of worker w before the partial flush of b indices: the last batch
\* flush wrote it at index end - b - 1, or nothing has written it
SlotBeforePartial(w, b) ==
    IF indexesDoneInChunk(w) = b
    THEN 0
    ELSE BatchSlot(indexesDoneInChunk(w) - b - 1, totalInChunk(w))

\* C12: at the end of a chunk with a partial batch of b > 0 indices the slot is
\* increased by b / totalInChunk scaled to 0..1,000,000, and so it is strictly
\* greater than before when b / totalInChunk * 1,000,000 >= 1.
C12_PartialFlushScaled ==
    Spawned =>
        \A w \in Workers :
            (PostedCompleted(w) /\ batchProgress[w] > 0) =>
                /\ progressArray[w] = SlotBeforePartial(w, batchProgress[w])
                                      + (batchProgress[w] * ProgressScale) \div totalInChunk(w)
                /\ batchProgress[w] * ProgressScale >= totalInChunk(w)
                      => progressArray[w] > SlotBeforePartial(w, batchProgress[w])

\* Worker w takes a step of verifyChunk.
WorkerStep(w) == checked'[w] # checked[w] \/ posted'[w] # posted[w]

\* The coordinator takes no step: no handler consumes an event, no tick reports.
CoordinatorIdle ==
    /\ state' = state
    /\ overallProgress' = overallProgress
    /\ exited' = exited
    /\ surfaced' = surfaced
    /\ completedLog' = completedLog
    /\ \A v \in Workers : Len(port'[v]) >= Len(port[v])

\* C13: a step that changes slot w of the progress array is a step of worker w
\* in its loop or at its end; it leaves every other slot and every other worker
\* alone, and it is no step of the coordinator: a tick or a handler changes no slot.
C13_SlotWritesAreOwn ==
    [][Spawned =>
          \A w \in Workers :
              progressArray'[w] # progressArray[w] =>
                  /\ pc[w] = "loop"
                  /\ WorkerStep(w)
                  /\ \A v \in Workers \ {w} :
                        /\ progressArray'[v] = progressArray[v]
                        /\ ~WorkerStep(v)
                        /\ pc'[v] = pc[v]
                  /\ CoordinatorIdle]_vars

\* C13 witness: two workers have written different values to their slots and a
\* tick has read the array.
C13_Witness ==
    /\ Spawned
    /\ overallProgress > 0
    /\ \E w, v \in Workers :
          /\ progressArray[w] > 0
          /\ progressArray[v] > 0
          /\ progressArray[w] # progressArray[v]

\* C14: the sum a tick reads, now or at the last tick, is between 0 and
\* numCPUs * 1,000,000: the overall fraction is in [0, 1].
C14_OverallProgressInUnit ==
    Spawned =>
        /\ 0 <= overallProgress
        /\ overallProgress <= numCPUs * ProgressScale
        /\ 0 <= SumTo(progressArray, numCPUs - 1)
        /\ SumTo(progressArray, numCPUs - 1) <= numCPUs * ProgressScale

\* C14 witness: a tick has reported a positive sum, and workers still in their
\* loops have written slots since.
C14_Witness ==
    /\ Spawned
    /\ numCPUs >= 2
    /\ overallProgress > 0
    /\ overallProgress # SumTo(progressArray, numCPUs - 1)
    /\ \E w \in Workers : pc[w] = "loop" /\ progressArray[w] > 0

\* ------------------------------------------------------------ the partition

ChunkSizeOf(w) == Cardinality(ChunkIndexes(w))

\* C15 as stated: every chunk but the last holds exactly chunkSize indices
\* and has start <= end <= totalNumbers.
C15_OnlyLastChunkShort ==
    Spawned =>
        /\ DOMAIN workerData = 0 .. (numCPUs - 1)
        /\ \A w \in Workers :
              w < numCPUs - 1 =>
                  /\ ChunkSizeOf(w) = chunkSize
                  /\ workerData[w].start <= workerData[w].end
                  /\ workerData[w].end <= totalNumbers

\* C15: there are numCPUs chunks; chunk w starts at w * chunkSize and ends at
\* or below totalNumbers; a chunk that fits below totalNumbers holds exactly
\* chunkSize indices and has start <= end; no chunk holds more; every chunk
\* after a chunk that is short is empty.
C15_ChunksFullThenEmpty ==
    Spawned =>
        /\ DOMAIN workerData = 0 .. (numCPUs - 1)
        /\ \A w \in Workers :
              /\ workerData[w].start = w * chunkSize
              /\ workerData[w].end <= totalNumbers
              /\ ChunkSizeOf(w) <= chunkSize
              /\ (w + 1) * chunkSize <= totalNumbers =>
                    /\ ChunkSizeOf(w) = chunkSize
                    /\ workerData[w].start <= workerData[w].end
              /\ ChunkSizeOf(w) < chunkSize =>
                    \A v \in Workers : v > w => ChunkSizeOf(v) = 0

\* C15 witness: three chunks, a chunk before the last is short and the last
\* starts beyond its end.
C15_Witness ==
    /\ Spawned
    /\ numCPUs = 3
    /\ chunkSize > 0
    /\ \E w \in Workers : w < numCPUs - 1 /\ ChunkSizeOf(w) < chunkSize
    /\ workerData[numCPUs - 1].start > workerData[numCPUs - 1].end

\* ------------------------------------------------------- terminal states

Terminal == {"Succeeded", "Failed"}

\* C16: a coordinator in Succeeded or Failed stays there, and after the start no
\* worker is spawned or started again: the chunks stay, no worker goes back
\* into its loop or back to an earlier index.
C16_TerminalIsFinal ==
    [][/\ state \in Terminal => state' = state
       /\ Spawned =>
             /\ workerData' = workerData
             /\ \A w \in Workers :
                   /\ pc'[w] = "loop" => pc[w] = "loop"
                   /\ i'[w] >= i[w]]_vars

\* C16 witness: the coordinator is in Failed, every worker has exited, and
\* exit events of workers are still to be handled.
C16_Witness ==
    /\ state = "Failed"
    /\ numCPUs >= 2
    /\ \A w \in Workers : pc[w] = "exited"
    /\ \E w \in Workers :
          /\ PostedCompleted(w)
          /\ Len(port[w]) > 0
    /\ \A w \in Workers \ exited : Len(port[w]) > 0

\* ------------------------------------------------------------- the value

\* C17: for every index below maxInteger * 10^decimalPlaces, intPart is the
\* floor of index / 10^decimalPlaces and is not negative, and fracPart is
\* index mod 10^decimalPlaces.
C17_IntPartIsFloor ==
    Spawned =>
    \A idx \in 0 .. (maxInteger * multiplier - 1) :
        /\ intPart(idx) = idx \div multiplier
        /\ intPart(idx) >= 0
        /\ fracPart(idx) = idx % multiplier

\* ------------------------------------------------------------- the check

\* condition 1 at index idx: serialized equals deserialized
SameAfterJSON(idx) ==
    \E serialized \in {serializedOf(valueAt(idx))} :
        serialized = deserializedOf(serialized)

\* condition 2 at index idx: serialized and value have the same fixed text
SameFixedText(idx) == toFixed(serializedOf(valueAt(idx))) = toFixed(valueAt(idx))

\* the k-th index that worker w took passed the check
PassedAt(w, k) == k < Len(checked[w]) \/ ~PostedError(w)

\* C18: an index that a worker took passed the check iff both conditions hold
\* at it; an index at which either condition fails is the one of an Error.
C18_PassIffBothConditions ==
    Spawned =>
        \A w \in Workers :
            \A k \in 1 .. Len(checked[w]) :
                PassedAt(w, k) <=> (SameAfterJSON(checked[w][k]) /\ SameFixedText(checked[w][k]))

\* C18 witness: one worker posted Error at an index where only condition 1
\* fails, another at an index where only condition 2 fails.
C18_Witness ==
    /\ Spawned
    /\ \E w, v \in Workers :
          /\ PostedError(w)
          /\ PostedError(v)
          /\ ~SameAfterJSON(checked[w][Len(checked[w])])
          /\ SameFixedText(checked[w][Len(checked[w])])
          /\ SameAfterJSON(checked[v][Len(checked[v])])
          /\ ~SameFixedText(checked[v][Len(checked[v])])

====
